---- MODULE Spec2Model ----
(***************************************************************************)
(* Model of firebase-auth-cfworkers: the FirebaseAuth client class and the *)
(* google-oauth helpers (getAuthToken, verifyIdToken).                     *)
(*                                                                         *)
(* Two specifications share the variables:                                 *)
(*   SpecVerify  one verification call at a time (verifyIdToken or         *)
(*               verifySessionCookie) against the provider's published    *)
(*               key sets, which may rotate, under a ticking clock;        *)
(*   Spec        one client call at a time of the REST operations          *)
(*               (getToken, lookupUser, signIn/UpWithEmailAndPassword,     *)
(*               changePassword, deleteAccount, setCustomUserClaims,       *)
(*               createSessionCookie), each split at its awaits.           *)
(***************************************************************************)
EXTENDS Integers, Sequences, FiniteSets, TLC

VARIABLES
    config,      \* FirebaseConfig: [projectId, apiKey, cache (is one configured)]
    now,         \* wall clock, seconds
    ticks,       \* number of clock advances taken so far
    published,   \* the provider's current key sets, one per endpoint
    vcall,       \* the verification call in progress
    pc,          \* position of the client call in progress
    op,          \* operation of the client call in progress
    arg,         \* its arguments
    token,       \* its OAuth token: what the action of withCache returned
    cached,      \* what its cache.get returned
    resData,     \* response data of its sign-in / sign-up request
    reqs,        \* HTTP requests it has sent so far, in order
    resps,       \* status of the response to each of them
    outcome,     \* how its promise settled
    cache,       \* the external key-value cache: key -> entry
    calls        \* number of client calls started so far

vars == <<config, now, ticks, published, vcall, pc, op, arg, token, cached, resData,
          reqs, resps, outcome, cache, calls>>

clientVars == <<pc, op, arg, token, cached, resData, reqs, resps, outcome, cache, calls>>

-----------------------------------------------------------------------------
(* Bounds *)

MaxTicks == 2
MaxCalls == 3

-----------------------------------------------------------------------------
(* Clock *)

\* Time passes: a network latency of one second at any point, or just under an
\* hour between two calls.
Latency == 1

TickSteps == {Latency, 3599}

Tick ==
    /\ ticks < MaxTicks
    /\ \E d \in TickSteps :
          /\ d > Latency => (pc = "idle" /\ vcall.pc = "idle")
          /\ now' = now + d
    /\ ticks' = ticks + 1
    /\ UNCHANGED <<config, published, vcall, clientVars>>

-----------------------------------------------------------------------------
(* JavaScript values *)

Undefined == "undefined"

\* Property names every parsed JSON object inherits from Object.prototype.
ObjectPrototypeKeys == {"constructor"}

\* What an inherited property evaluates to: a function, truthy and not a string.
InheritedValue == "[Function]"

\* data[key] on a parsed JSON object: own property, else inherited, else undefined.
\* An undefined key is coerced to the property name "undefined".
GetProperty(data, key) ==
    IF key \in DOMAIN data THEN data[key]
    ELSE IF key \in ObjectPrototypeKeys THEN InheritedValue
    ELSE Undefined

\* !x is false exactly for truthy x; of the values used: undefined and '' are falsy.
Truthy(x) == x \notin {Undefined, ""}

-----------------------------------------------------------------------------
(* Tokens and keys for verification *)

Projects == {"proj-a", "proj-b"}

SigningKeys == {"A", "B"}

Certificate(k) == "-----BEGIN CERTIFICATE-----" \o k

Certificates == {Certificate(k) : k \in SigningKeys}

Kids == {"k1", "k2"}

IssuerPrefixes == {"https://securetoken.google.com/", "https://session.firebase.google.com/"}

NoClaim == -1

\* A JWT: protected header kid, the key that signed it, whether header/payload are
\* still the signed bytes, and the registered claims of its payload.
Tokens ==
    [kid : Kids \cup ObjectPrototypeKeys \cup {Undefined},
     signer : SigningKeys,
     intact : BOOLEAN,
     iss : {p \o q : p \in IssuerPrefixes, q \in Projects},
     aud : Projects,
     exp : {NoClaim, 3600},
     nbf : {NoClaim, 3600}]

\* Key sets the provider may publish: kid -> X.509 certificate.
KeySets ==
    { [k \in {"k1"} |-> Certificate("A")],
      [k \in {"k1", "k2"} |-> IF k = "k1" THEN Certificate("A") ELSE Certificate("B")],
      [k \in {"k2"} |-> Certificate("B")] }

Endpoints == {"securetoken", "publicKeys"}

Rejected(e) == [status |-> "rejected", error |-> e, payload |-> Undefined]

Resolved(v) == [status |-> "resolved", error |-> "", payload |-> v]

Pending == [status |-> "pending", error |-> "", payload |-> Undefined]

\* jose decodeProtectedHeader: the header's kid.
decodeProtectedHeader(t) == t.kid

\* jose importX509: only an X.509 formatted string imports; anything else throws.
importX509(x) ==
    IF x \in Certificates
    THEN CHOOSE k \in SigningKeys : Certificate(k) = x
    ELSE Undefined

\* jwtVerify without the expiry check.
jwtVerifyIgnoringExp(t, key, checkClaims, issuer, audience, at) ==
    IF ~(t.intact /\ t.signer = key)
        THEN Rejected("signature verification failed")
    ELSE IF checkClaims /\ t.iss # issuer
        THEN Rejected("unexpected \"iss\" claim value")
    ELSE IF checkClaims /\ t.aud # audience
        THEN Rejected("unexpected \"aud\" claim value")
    ELSE IF t.nbf # NoClaim /\ t.nbf > at
        THEN Rejected("\"nbf\" claim timestamp check failed")
    ELSE Resolved([iss |-> t.iss, aud |-> t.aud, exp |-> t.exp, nbf |-> t.nbf])

\* jose jwtVerify(jwt, key, options): signature first, then the claims the options
\* name (issuer, audience), then nbf and exp when the payload carries them.
jwtVerify(t, key, checkClaims, issuer, audience, at) ==
    IF ~(t.intact /\ t.signer = key)
        THEN Rejected("signature verification failed")
    ELSE IF checkClaims /\ t.iss # issuer
        THEN Rejected("unexpected \"iss\" claim value")
    ELSE IF checkClaims /\ t.aud # audience
        THEN Rejected("unexpected \"aud\" claim value")
    ELSE IF t.nbf # NoClaim /\ t.nbf > at
        THEN Rejected("\"nbf\" claim timestamp check failed")
    ELSE IF t.exp # NoClaim /\ t.exp <= at
        THEN Rejected("\"exp\" claim timestamp check failed")
    ELSE Resolved([iss |-> t.iss, aud |-> t.aud, exp |-> t.exp, nbf |-> t.nbf])

NoData == [k \in {} |-> ""]

VIdle == [pc |-> "idle", op |-> "none", jwt |-> CHOOSE t \in Tokens : TRUE,
          data |-> NoData, at |-> 0, result |-> Pending]

\* The provider rotates the key set of one endpoint.
RotateKeys ==
    /\ \E e \in Endpoints, ks \in KeySets :
          /\ published[e] # ks
          /\ published' = [published EXCEPT ![e] = ks]
    /\ UNCHANGED <<config, now, ticks, vcall, clientVars>>

\* A caller invokes verifyIdToken(idToken) or verifySessionCookie(sessionCookie).
VerifyCall ==
    /\ vcall.pc = "idle"
    /\ \E o \in {"verifyIdToken", "verifySessionCookie"}, t \in Tokens :
          vcall' = [pc |-> "fetch", op |-> o, jwt |-> t, data |-> NoData,
                    at |-> 0, result |-> Pending]
    /\ UNCHANGED <<config, now, ticks, published, clientVars>>

KeysUrl(o) == IF o = "verifyIdToken" THEN "securetoken" ELSE "publicKeys"

\* await axios(<public keys url>): the current key set, or a failed request.
FetchPublicKeys ==
    /\ vcall.pc = "fetch"
    /\ \/ vcall' = [vcall EXCEPT !.pc = "verify", !.data = published[KeysUrl(vcall.op)]]
       \/ vcall' = [vcall EXCEPT !.pc = "done", !.result = Rejected("request failed")]
    /\ UNCHANGED <<config, now, ticks, published, clientVars>>

\* google-oauth.ts verifyIdToken, from the key lookup to the return.
verifyIdToken(idToken, data, at) ==
    LET certificate == GetProperty(data, decodeProtectedHeader(idToken))
        publicKey == importX509(certificate)
    IN  IF publicKey = Undefined
        THEN Rejected("\"x509\" must be X.509 formatted string")
        ELSE jwtVerify(idToken, publicKey, FALSE, "", "", at)

\* FirebaseAuth.verifySessionCookie, from the key lookup to the return.
verifySessionCookie(sessionCookie, data, projectId, at) ==
    LET kid == decodeProtectedHeader(sessionCookie)
    IN  IF ~Truthy(GetProperty(data, kid))
        THEN Rejected("Cannot find public key")
        ELSE LET certificate == GetProperty(data, kid)
                 publicKey == importX509(certificate)
             IN  IF publicKey = Undefined
                 THEN Rejected("\"x509\" must be X.509 formatted string")
                 ELSE jwtVerify(sessionCookie, publicKey, TRUE,
                                "https://session.firebase.google.com/" \o projectId,
                                projectId, at)

\* The rest of the verification call, after the key set has arrived.
Verify ==
    /\ vcall.pc = "verify"
    /\ vcall' = [vcall EXCEPT
          !.pc = "done",
          !.at = now,
          !.result = IF vcall.op = "verifyIdToken"
                     THEN verifyIdToken(vcall.jwt, vcall.data, now)
                     ELSE verifySessionCookie(vcall.jwt, vcall.data, config.projectId, now)]
    /\ UNCHANGED <<config, now, ticks, published, clientVars>>

\* The caller has consumed the settled promise; the next call may start.
VerifyReturn ==
    /\ vcall.pc = "done"
    /\ vcall' = VIdle
    /\ UNCHANGED <<config, now, ticks, published, clientVars>>

-----------------------------------------------------------------------------
(* Values of the client operations *)

\* An OAuth access token: its text and when the token endpoint issued it.
NoToken == [id |-> Undefined, iat |-> 0]

\* A claims argument: null, or an object as its properties in insertion order.
JsNull == [null |-> TRUE, props |-> <<>>]

Object(props) == [null |-> FALSE, props |-> props]

JsTrue == [type |-> "boolean", text |-> "true"]

JsString(str) == [type |-> "string", text |-> str]

JsUndefined == [type |-> "undefined", text |-> ""]

\* JSON.stringify of a property value; a property whose value is undefined is left out.
StringifyValue(v) == IF v.type = "string" THEN "\"" \o v.text \o "\"" ELSE v.text

RECURSIVE StringifyMembers(_, _)
StringifyMembers(props, first) ==
    IF props = <<>> THEN ""
    ELSE IF Head(props)[2].type = "undefined" THEN StringifyMembers(Tail(props), first)
    ELSE (IF first THEN "" ELSE ",") \o "\"" \o Head(props)[1] \o "\":"
         \o StringifyValue(Head(props)[2]) \o StringifyMembers(Tail(props), FALSE)

JSONstringify(v) ==
    IF v.null THEN "null" ELSE "{" \o StringifyMembers(v.props, TRUE) \o "}"

Digit(d) == CASE d = 0 -> "0" [] d = 1 -> "1" [] d = 2 -> "2" [] d = 3 -> "3" [] d = 4 -> "4"
              [] d = 5 -> "5" [] d = 6 -> "6" [] d = 7 -> "7" [] d = 8 -> "8" [] d = 9 -> "9"

\* n + '' for a non-negative integer n.
RECURSIVE NumberToString(_)
NumberToString(n) ==
    IF n < 10 THEN Digit(n) ELSE NumberToString(n \div 10) \o Digit(n % 10)

IdTokens == {"idToken-1", "idToken-2"}

ClaimsArgs ==
    { JsNull,
      Object(<<>>),
      Object(<< <<"admin", JsTrue>> >>),
      Object(<< <<"admin", JsTrue>>, <<"tier", JsString("gold")>> >>),
      Object(<< <<"admin", JsUndefined>> >>) }

FourteenDays == 60 * 60 * 24 * 14

NoArg == [idToken |-> "", email |-> "", password |-> "", uid |-> "",
          claims |-> JsNull, expiresIn |-> 0]

NoBody == [idToken |-> "", email |-> "", password |-> "", returnSecureToken |-> "",
           localId |-> "", customAttributes |-> "", validDuration |-> ""]

NoResponseData == [idToken |-> "", users |-> <<>>, sessionCookie |-> "", localId |-> ""]

Request(url, body, bearer) == [url |-> url, body |-> body, authorization |-> bearer]

\* HTTP statuses a response may carry.
Statuses == {200, 204, 400}

\* redaxios rejects the promise unless the response is ok (2xx).
AxiosResolves(status) == 200 <= status /\ status <= 299

BASE_URL == "https://identitytoolkit.googleapis.com/v1/"

OAuthUrl == "https://oauth2.googleapis.com/token"

CacheKeys == {"google-oauth", "other"}

NoEntry == [value |-> NoToken, ttl |-> 0, expiresAt |-> 0]

\* cache.get(key): the stored value until its expiry, then nothing.
CacheGet(c, key, at) ==
    IF at < c[key].expiresAt THEN c[key].value ELSE NoToken

\* cache.put(key, value, {expirationTtl}): the entry expires ttl seconds from now.
CachePut(c, key, value, ttl, at) ==
    [c EXCEPT ![key] = [value |-> value, ttl |-> ttl, expiresAt |-> at + ttl]]

Settled(status, error, tok, d, user, at) ==
    [status |-> status, error |-> error, token |-> tok, data |-> d, user |-> user,
     at |-> at]

Unsettled == Settled("pending", "", NoToken, NoResponseData, Undefined, 0)

InitCommon ==
    /\ config \in [projectId : Projects, apiKey : {"api-key"}, cache : BOOLEAN]
    /\ now = 0
    /\ ticks = 0
    /\ published \in [Endpoints -> KeySets]
    /\ vcall = VIdle
    /\ pc = "idle"
    /\ op = "none"
    /\ arg = NoArg
    /\ token = NoToken
    /\ cached = NoToken
    /\ resData = NoResponseData
    /\ reqs = <<>>
    /\ resps = <<>>
    /\ outcome = Unsettled
    /\ cache = [k \in CacheKeys |-> NoEntry]
    /\ calls = 0

-----------------------------------------------------------------------------
(* Client operations *)

verifyVars == <<config, published, vcall>>

\* A call is invoked: its arguments are bound and its locals are fresh.
Invoke(o, a, first) ==
    /\ pc = "idle"
    /\ calls < MaxCalls
    /\ calls' = calls + 1
    /\ op' = o
    /\ arg' = a
    /\ pc' = first
    /\ token' = NoToken
    /\ cached' = NoToken
    /\ resData' = NoResponseData
    /\ reqs' = <<>>
    /\ resps' = <<>>
    /\ outcome' = Unsettled
    /\ UNCHANGED <<now, ticks, cache, verifyVars>>

\* The promise of the call settles.
Settle(o) ==
    /\ pc' = "done"
    /\ outcome' = o

Resolve(tok, d, user) == Settle(Settled("resolved", "", tok, d, user, now))

Reject(e) == Settle(Settled("rejected", e, NoToken, NoResponseData, Undefined, now))

\* The request goes out and its response arrives.
Exchange(req, status) ==
    /\ reqs' = Append(reqs, req)
    /\ resps' = Append(resps, status)

CallGetToken == Invoke("getToken", NoArg, "withCache")

CallSetCustomUserClaims ==
    \E c \in ClaimsArgs :
        Invoke("setCustomUserClaims", [NoArg EXCEPT !.uid = "uid-1", !.claims = c],
               "withCache")

CallCreateSessionCookie ==
    \E t \in IdTokens, e \in {FourteenDays, 300} :
        Invoke("createSessionCookie", [NoArg EXCEPT !.idToken = t, !.expiresIn = e],
               "withCache")

CallLookupUser ==
    \E t \in IdTokens : Invoke("lookupUser", [NoArg EXCEPT !.idToken = t], "post")

CallSignInWithEmailAndPassword ==
    Invoke("signInWithEmailAndPassword",
           [NoArg EXCEPT !.email = "my@email.com", !.password = "supersecurepassword"],
           "post")

CallSignUpWithEmailAndPassword ==
    Invoke("signUpWithEmailAndPassword",
           [NoArg EXCEPT !.email = "my@email.com", !.password = "supersecurepassword"],
           "post")

CallChangePassword ==
    \E t \in IdTokens :
        Invoke("changePassword", [NoArg EXCEPT !.idToken = t, !.password = "new-password"],
               "post")

CallDeleteAccount ==
    \E t \in IdTokens : Invoke("deleteAccount", [NoArg EXCEPT !.idToken = t], "post")

\* The caller has consumed the settled promise; the next call may start.
Return ==
    /\ pc = "done"
    /\ pc' = "idle"
    /\ UNCHANGED <<op, arg, token, cached, resData, reqs, resps, outcome, cache, calls,
                   now, ticks, verifyVars>>

(* getToken / withCache *)

Expiration == 3600

\* getToken returns tok to its caller: the promise of getToken() itself, or the
\* rest of setCustomUserClaims / createSessionCookie.
GetTokenReturns(tok) ==
    IF op = "getToken"
    THEN Resolve(tok, NoResponseData, Undefined)
    ELSE pc' = "adminPost" /\ UNCHANGED outcome

\* withCache running the action whatever the cache holds.
WithCacheGetIgnoringEntry ==
    /\ pc = "withCache"
    /\ pc' = "action"
    /\ cached' = IF config.cache THEN CacheGet(cache, "google-oauth", now) ELSE cached
    /\ UNCHANGED <<token, outcome>>
    /\ UNCHANGED <<op, arg, resData, reqs, resps, cache, calls, now, ticks, verifyVars>>

\* withCache up to its first result: without a cache the action runs; with one,
\* cache.get(key) decides between the cached value and the action.
WithCacheGet ==
    /\ pc = "withCache"
    /\ IF ~config.cache
       THEN /\ pc' = "action"
            /\ UNCHANGED <<token, cached, outcome>>
       ELSE LET result == CacheGet(cache, "google-oauth", now)
            IN  /\ cached' = result
                /\ IF ~Truthy(result.id)
                   THEN pc' = "action" /\ UNCHANGED <<token, outcome>>
                   ELSE token' = result /\ GetTokenReturns(result)
    /\ UNCHANGED <<op, arg, resData, reqs, resps, cache, calls, now, ticks, verifyVars>>

\* getAuthToken: the signed assertion is posted to the token endpoint, which issues
\* an access token now, answers without one, or fails.
GetAuthToken ==
    /\ pc = "action"
    /\ \E status \in Statuses, issued \in BOOLEAN :
          /\ Exchange(Request(OAuthUrl, NoBody, NoToken), status)
          /\ IF ~AxiosResolves(status)
             THEN Reject("request failed") /\ UNCHANGED token
             ELSE LET result == IF issued THEN [id |-> "ya29.token", iat |-> now]
                                ELSE NoToken
                  IN  /\ token' = result
                      /\ IF config.cache
                         THEN pc' = "put" /\ UNCHANGED outcome
                         ELSE GetTokenReturns(result)
    /\ UNCHANGED <<op, arg, cached, resData, cache, calls, now, ticks, verifyVars>>

\* withCache stores the result of the action and returns it.
WithCachePut ==
    /\ pc = "put"
    /\ cache' = CachePut(cache, "google-oauth", token, Expiration, now)
    /\ GetTokenReturns(token)
    /\ UNCHANGED <<op, arg, token, cached, resData, reqs, resps, calls, now, ticks,
                   verifyVars>>

(* setCustomUserClaims / createSessionCookie, after getToken *)

Bearer(tok) == "Bearer " \o tok.id

\* The update request without the replacement of null by {}.
SetCustomUserClaimsRequestKeepingNull(uid, customUserClaims, tok, projectId) ==
    Request(BASE_URL \o "projects/" \o projectId \o "/accounts:update",
            [NoBody EXCEPT !.localId = uid,
                           !.customAttributes = JSONstringify(customUserClaims)],
            Bearer(tok))

SetCustomUserClaimsRequest(uid, customUserClaims, tok, projectId) ==
    LET claims == IF customUserClaims = JsNull THEN Object(<<>>) ELSE customUserClaims
    IN  Request(BASE_URL \o "projects/" \o projectId \o "/accounts:update",
                [NoBody EXCEPT !.localId = uid,
                               !.customAttributes = JSONstringify(claims)],
                Bearer(tok))

CreateSessionCookieRequest(idToken, expiresIn, tok, projectId) ==
    Request(BASE_URL \o "projects/" \o projectId \o ":createSessionCookie",
            [NoBody EXCEPT !.idToken = idToken,
                           !.validDuration = NumberToString(expiresIn)],
            Bearer(tok))

\* Whether a call goes on with the response data: axios resolved and status is 200.
StatusAccepted(status) == AxiosResolves(status) /\ ~(status # 200)

SetCustomUserClaimsPost ==
    /\ pc = "adminPost"
    /\ op = "setCustomUserClaims"
    /\ \E status \in Statuses :
          /\ Exchange(SetCustomUserClaimsRequest(arg.uid, arg.claims, token,
                                                 config.projectId), status)
          /\ IF StatusAccepted(status)
             THEN Resolve(token, [NoResponseData EXCEPT !.localId = arg.uid], Undefined)
             ELSE Reject("request failed")
    /\ UNCHANGED <<op, arg, token, cached, resData, cache, calls, now, ticks, verifyVars>>

CreateSessionCookiePost ==
    /\ pc = "adminPost"
    /\ op = "createSessionCookie"
    /\ \E status \in Statuses :
          /\ Exchange(CreateSessionCookieRequest(arg.idToken, arg.expiresIn, token,
                                                 config.projectId), status)
          /\ IF StatusAccepted(status)
             THEN Resolve(token, [NoResponseData EXCEPT !.sessionCookie = "session-cookie"],
                          Undefined)
             ELSE Reject("request failed")
    /\ UNCHANGED <<op, arg, token, cached, resData, cache, calls, now, ticks, verifyVars>>

(* Operations on sendFirebaseAuthPostRequest *)

FirebaseAuthPostRequest(formData, endpoint, apiKey) ==
    Request(BASE_URL \o "accounts:" \o endpoint \o "?key=" \o apiKey, formData, "")

\* sendFirebaseAuthPostRequest without its status check.
SendReturnsAnyOk(status) == AxiosResolves(status)

\* sendFirebaseAuthPostRequest returns res.data, or throws.
SendReturns(status) == AxiosResolves(status) /\ ~(status # 200)

LookupUserRequest(idToken, apiKey) ==
    FirebaseAuthPostRequest([NoBody EXCEPT !.idToken = idToken], "lookup", apiKey)

\* data.users[0]
FirstUser(d) == IF d.users = <<>> THEN Undefined ELSE d.users[1]

\* lookupUser, called directly or as the second step of sign-in / sign-up.
LookupUser ==
    /\ \/ pc = "post" /\ op = "lookupUser"
       \/ pc = "lookup"
    /\ \E status \in Statuses, users \in {<<>>, <<"user-1">>} :
          /\ Exchange(LookupUserRequest(
                          IF pc = "lookup" THEN resData.idToken ELSE arg.idToken,
                          config.apiKey), status)
          /\ IF SendReturns(status)
             THEN Resolve(NoToken, resData, FirstUser([NoResponseData EXCEPT !.users = users]))
             ELSE Reject("request failed")
    /\ UNCHANGED <<op, arg, token, cached, resData, cache, calls, now, ticks, verifyVars>>

SignRequest(email, password, endpoint, apiKey) ==
    FirebaseAuthPostRequest(
        [NoBody EXCEPT !.email = email, !.password = password,
                       !.returnSecureToken = "true"], endpoint, apiKey)

\* Sign-in / sign-up going on to the lookup without awaiting a successful answer.
SignPostThenAlwaysLookup(o, endpoint) ==
    /\ pc = "post"
    /\ op = o
    /\ \E status \in Statuses, t \in IdTokens :
          /\ Exchange(SignRequest(arg.email, arg.password, endpoint, config.apiKey), status)
          /\ resData' = [NoResponseData EXCEPT !.idToken = t]
          /\ pc' = "lookup"
          /\ UNCHANGED outcome
    /\ UNCHANGED <<op, arg, token, cached, cache, calls, now, ticks, verifyVars>>

\* The first request of sign-in / sign-up; on success lookupUser(token.idToken) follows.
SignPost(o, endpoint) ==
    /\ pc = "post"
    /\ op = o
    /\ \E status \in Statuses, t \in IdTokens :
          /\ Exchange(SignRequest(arg.email, arg.password, endpoint, config.apiKey), status)
          /\ IF SendReturns(status)
             THEN /\ resData' = [NoResponseData EXCEPT !.idToken = t]
                  /\ pc' = "lookup"
                  /\ UNCHANGED outcome
             ELSE Reject("request failed") /\ UNCHANGED resData
    /\ UNCHANGED <<op, arg, token, cached, cache, calls, now, ticks, verifyVars>>

SignInWithEmailAndPassword == SignPost("signInWithEmailAndPassword", "signInWithPassword")

SignUpWithEmailAndPassword == SignPost("signUpWithEmailAndPassword", "signUp")

ChangePassword ==
    /\ pc = "post"
    /\ op = "changePassword"
    /\ \E status \in Statuses, t \in IdTokens :
          /\ Exchange(FirebaseAuthPostRequest(
                          [NoBody EXCEPT !.idToken = arg.idToken,
                                         !.password = arg.password,
                                         !.returnSecureToken = "true"],
                          "update", config.apiKey), status)
          /\ IF SendReturns(status)
             THEN Resolve(NoToken, [NoResponseData EXCEPT !.idToken = t], Undefined)
             ELSE Reject("request failed")
    /\ UNCHANGED <<op, arg, token, cached, resData, cache, calls, now, ticks, verifyVars>>

DeleteAccount ==
    /\ pc = "post"
    /\ op = "deleteAccount"
    /\ \E status \in Statuses :
          /\ Exchange(FirebaseAuthPostRequest([NoBody EXCEPT !.idToken = arg.idToken],
                                              "delete", config.apiKey), status)
          /\ IF SendReturns(status)
             THEN Resolve(NoToken, NoResponseData, Undefined)
             ELSE Reject("request failed")
    /\ UNCHANGED <<op, arg, token, cached, resData, cache, calls, now, ticks, verifyVars>>

-----------------------------------------------------------------------------
(* Specification of the client operations *)

Init ==
    /\ InitCommon
    /\ published = [e \in Endpoints |-> [k \in {"k1"} |-> Certificate("A")]]

Next ==
    \/ Tick
    \/ CallGetToken
    \/ CallSetCustomUserClaims
    \/ CallCreateSessionCookie
    \/ CallLookupUser
    \/ CallSignInWithEmailAndPassword
    \/ CallSignUpWithEmailAndPassword
    \/ CallChangePassword
    \/ CallDeleteAccount
    \/ Return
    \/ WithCacheGet
    \/ GetAuthToken
    \/ WithCachePut
    \/ SetCustomUserClaimsPost
    \/ CreateSessionCookiePost
    \/ LookupUser
    \/ SignInWithEmailAndPassword
    \/ SignUpWithEmailAndPassword
    \/ ChangePassword
    \/ DeleteAccount

Spec == Init /\ [][Next]_vars

-----------------------------------------------------------------------------
(* Claims about the client operations, checked under Spec *)

\* Requests of the current call, by destination.
OAuthRequests == {i \in 1..Len(reqs) : reqs[i].url = OAuthUrl}

ToolkitRequests == {i \in 1..Len(reqs) : reqs[i].url # OAuthUrl}

TokenLifetime == 3600

\* C5: a token that getToken returns has not passed its one-hour lifetime, counted
\* from its issue, at the time it is returned.
C5_ReturnedTokenWithinLifetime ==
    (op = "getToken" /\ outcome.status = "resolved" /\ Truthy(outcome.token.id)) =>
        outcome.at < outcome.token.iat + TokenLifetime

\* The customAttributes each claims argument must be sent as.
ExpectedCustomAttributes(c) ==
    CASE c = JsNull -> "{}"
      [] c = Object(<<>>) -> "{}"
      [] c = Object(<< <<"admin", JsTrue>> >>) -> "{\"admin\":true}"
      [] c = Object(<< <<"admin", JsTrue>>, <<"tier", JsString("gold")>> >>)
            -> "{\"admin\":true,\"tier\":\"gold\"}"
      [] c = Object(<< <<"admin", JsUndefined>> >>) -> "{}"

\* C6: setCustomUserClaims sends at most one update request, exactly one when it
\* resolves, to the project's accounts:update with localId = uid and
\* customAttributes the JSON text of the claims, '{}' for null.
C6_UpdateCarriesSerializedClaims ==
    op = "setCustomUserClaims" =>
        /\ Cardinality(ToolkitRequests) <= 1
        /\ outcome.status = "resolved" => Cardinality(ToolkitRequests) = 1
        /\ \A i \in ToolkitRequests :
              /\ reqs[i].url =
                    BASE_URL \o "projects/" \o config.projectId \o "/accounts:update"
              /\ reqs[i].body.localId = arg.uid
              /\ reqs[i].body.customAttributes = ExpectedCustomAttributes(arg.claims)

\* setCustomUserClaims(uid, null) resolved after sending the empty claim set.
C6_Witness ==
    /\ op = "setCustomUserClaims"
    /\ arg.claims = JsNull
    /\ outcome.status = "resolved"
    /\ \E i \in ToolkitRequests : reqs[i].body.customAttributes = "{}"

SignEndpoint ==
    IF op = "signInWithEmailAndPassword" THEN "signInWithPassword" ELSE "signUp"

\* C7: in sign-in and sign-up the lookup request follows a sign request answered
\* with 200 and carries exactly the idToken of that answer; a failed sign request
\* is followed by no lookup and rejects the call; a resolved call returns the token
\* response it looked up.
C7_LookupAfterSuccessfulSign ==
    op \in {"signInWithEmailAndPassword", "signUpWithEmailAndPassword"} =>
        /\ Len(reqs) <= 2
        /\ Len(reqs) >= 1 =>
              reqs[1].url = BASE_URL \o "accounts:" \o SignEndpoint \o "?key=" \o config.apiKey
        /\ Len(reqs) = 2 =>
              /\ resps[1] = 200
              /\ resData.idToken \in IdTokens
              /\ reqs[2].url = BASE_URL \o "accounts:lookup?key=" \o config.apiKey
              /\ reqs[2].body = [NoBody EXCEPT !.idToken = resData.idToken]
        /\ (Len(resps) >= 1 /\ resps[1] # 200) =>
              /\ Len(reqs) = 1
              /\ outcome.status = "rejected"
        /\ outcome.status = "resolved" =>
              /\ Len(reqs) = 2
              /\ outcome.data = resData

\* A sign-up resolved after its lookup request.
C7_Witness ==
    /\ op = "signUpWithEmailAndPassword"
    /\ outcome.status = "resolved"
    /\ Len(reqs) = 2
    /\ reqs[2].body.idToken = "idToken-2"

ToolkitOperations ==
    {"lookupUser", "signInWithEmailAndPassword", "signUpWithEmailAndPassword",
     "changePassword", "deleteAccount", "setCustomUserClaims", "createSessionCookie"}

\* C8: an operation that posts to the identity toolkit resolves only when every such
\* response had status 200; after any other status it is rejected and hands no
\* response data to the caller.
C8_ResolvesOnlyOnStatus200 ==
    op \in ToolkitOperations =>
        /\ outcome.status = "resolved" =>
              /\ ToolkitRequests # {}
              /\ \A i \in ToolkitRequests : resps[i] = 200
        /\ (\E i \in ToolkitRequests : resps[i] # 200) =>
              /\ outcome.status = "rejected"
              /\ outcome.data = NoResponseData
              /\ outcome.user = Undefined

\* createSessionCookie was rejected on a 204 response.
C8_Witness ==
    /\ op = "createSessionCookie"
    /\ outcome.status = "rejected"
    /\ \E i \in ToolkitRequests : resps[i] = 204

-----------------------------------------------------------------------------
(* Specification of the verification operations *)

InitVerify == InitCommon /\ config.projectId = "proj-a" /\ ~config.cache

NextVerify ==
    Tick \/ RotateKeys \/ VerifyCall \/ FetchPublicKeys \/ Verify \/ VerifyReturn

SpecVerify == InitVerify /\ [][NextVerify]_vars

-----------------------------------------------------------------------------
(* Claims about verification, checked under SpecVerify *)

\* The verification call has settled after its key set arrived.
Verified == vcall.pc = "done" /\ vcall.data # NoData

\* The token's kid names a key of the fetched set and that key signed these bytes.
CorrectlySigned == 
    /\ vcall.jwt.intact
    /\ vcall.jwt.kid \in DOMAIN vcall.data
    /\ vcall.data[vcall.jwt.kid] = Certificate(vcall.jwt.signer)

ExpiredAtCheck == vcall.jwt.exp # NoClaim /\ vcall.jwt.exp <= vcall.at

NotYetValidAtCheck == vcall.jwt.nbf # NoClaim /\ vcall.jwt.nbf > vcall.at

ForConfiguredProject ==
    /\ vcall.jwt.aud = config.projectId
    /\ vcall.jwt.iss = (IF vcall.op = "verifySessionCookie"
                        THEN "https://session.firebase.google.com/"
                        ELSE "https://securetoken.google.com/") \o config.projectId

DecodedClaims ==
    [iss |-> vcall.jwt.iss, aud |-> vcall.jwt.aud, exp |-> vcall.jwt.exp,
     nbf |-> vcall.jwt.nbf]

\* C1 as stated: both operations accept every correctly signed, unexpired token and
\* return its claims, and never resolve for a tampered or expired token. "Not
\* expired" is read as inside the validity period (nbf <= now < exp).
C1_SignedUnexpiredAccepted ==
    Verified =>
        /\ (CorrectlySigned /\ ~ExpiredAtCheck /\ ~NotYetValidAtCheck)
              => vcall.result = Resolved(DecodedClaims)
        /\ (~vcall.jwt.intact \/ ExpiredAtCheck) => vcall.result.status = "rejected"

\* C1 amended: once the key set is fetched, a correctly signed token inside its
\* validity period is accepted with its decoded claims, by
\* verifySessionCookie only when its issuer and audience are those of the configured
\* project; a tampered or expired token is always rejected.
C1_ValidAcceptedInvalidRejected ==
    Verified =>
        /\ ( /\ CorrectlySigned
             /\ ~ExpiredAtCheck
             /\ ~NotYetValidAtCheck
             /\ vcall.op = "verifySessionCookie" => ForConfiguredProject )
           => vcall.result = Resolved(DecodedClaims)
        /\ (~vcall.jwt.intact \/ ExpiredAtCheck) => vcall.result.status = "rejected"

\* A session cookie that passed every check was accepted after the clock had moved.
C1_Witness ==
    /\ Verified
    /\ vcall.op = "verifySessionCookie"
    /\ CorrectlySigned
    /\ vcall.jwt.exp # NoClaim
    /\ vcall.at > 0
    /\ vcall.result.status = "resolved"

\* C2: a verification resolves only for a token whose issuer and audience are the
\* ones of the configured project, for verifyIdToken as for verifySessionCookie.
C2_IssuerAudienceChecked ==
    (vcall.pc = "done" /\ vcall.result.status = "resolved") => ForConfiguredProject

\* C3: the token is verified only against the fetched key its kid names; when the
\* fetched set has no entry for the kid the call is rejected, and
\* verifySessionCookie rejects it with 'Cannot find public key'.
C3_OnlyKidKeyElseNotFound ==
    Verified =>
        /\ vcall.result.status = "resolved" => CorrectlySigned
        /\ vcall.jwt.kid \notin DOMAIN vcall.data =>
              /\ vcall.result.status = "rejected"
              /\ vcall.op = "verifySessionCookie" =>
                    vcall.result.error = "Cannot find public key"


\* The part of C3 that does not name the error: without an entry for the kid the
\* call is rejected, and a resolved call was verified against the kid's key alone.
C3_OnlyKidKeyElseRejected ==
    Verified =>
        /\ vcall.result.status = "resolved" => CorrectlySigned
        /\ vcall.jwt.kid \notin DOMAIN vcall.data => vcall.result.status = "rejected"

====
